---- MODULE Spec2Model ----
(***************************************************************************)
(* Model of the JWST ingestion job (src/src/jobs/fetch_jwst_data.py): the  *)
(* progress file, the month sequence, the per-row product resolution, the  *)
(* batched session commits against the observations table, and main().     *)
(*                                                                         *)
(* Strings that the code inspects (startswith / endswith / lower) are      *)
(* sequences of tokens; None and the empty string are both <<>> (the code  *)
(* only tests their truthiness).  Identifiers are naturals, 0 = missing.   *)
(***************************************************************************)
EXTENDS Integers, Sequences, FiniteSets, TLC

\* ---------------------------------------------------------------- bounds
\* number of calendar months the wall clock may reach, counted from 2022-01
MaxMonths == 2
\* number of invocations of main in one behaviour
MaxRuns == 3
\* number of calendar months the progress viewer is run over, from 2022-01
MaxDates == 14
\* how many times in a row a remote call may fail before the archive answers
FailCounts == {0, 1, 4, 5}

\* ------------------------------------------------------ program constants
StartYear == 2022
BatchSize == 25

None == <<>>

\* ------------------------------------------------------------- sequences
Last(s) == s[Len(s)]

Range(s) == {s[i] : i \in 1..Len(s)}

RECURSIVE Reverse(_)
Reverse(s) == IF s = <<>> THEN <<>> ELSE Append(Reverse(Tail(s)), Head(s))

\* ------------------------------------------------------- month sequence
\* f"{year}-{month:02d}"
MonthKey(year, month) == <<year, "-", month \div 10, month % 10>>

\* the inner loop of get_all_months for one year, from month m on
RECURSIVE MonthsOfYear(_, _, _)
MonthsOfYear(year, m, current) ==
    IF m > 12 THEN <<>>
    ELSE IF year = current.year /\ m > current.month THEN <<>>
    ELSE <<MonthKey(year, m)>> \o MonthsOfYear(year, m + 1, current)

RECURSIVE MonthsFrom(_, _)
MonthsFrom(year, current) ==
    IF year > current.year THEN <<>>
    ELSE MonthsOfYear(year, 1, current) \o MonthsFrom(year + 1, current)

\* mutant: the loop stops before the current month
get_all_months_Exclusive(current) ==
    LET months == MonthsFrom(StartYear, current)
    IN SubSeq(months, 1, Len(months) - 1)

get_all_months(current) == MonthsFrom(StartYear, current)

\* progress.get("completed_months", [])
CompletedOf(progress) ==
    IF "completed_months" \in DOMAIN progress THEN progress.completed_months ELSE <<>>

RECURSIVE FirstNotIn(_, _)
FirstNotIn(months, completed) ==
    IF months = <<>> THEN None
    ELSE IF Head(months) \notin completed THEN Head(months)
    ELSE FirstNotIn(Tail(months), completed)

\* mutant: the scan runs forward, from the oldest month
get_next_month_to_process_Forward(progress, current) ==
    FirstNotIn(get_all_months(current), Range(CompletedOf(progress)))

get_next_month_to_process(progress, current) ==
    FirstNotIn(Reverse(get_all_months(current)), Range(CompletedOf(progress)))

\* ------------------------------------------------------------- progress
NoProgress == [completed_months |-> <<>>, total_observations |-> 0]

\* mutant: a file that cannot be parsed gives a document without the list
load_progress_NoList(f) ==
    IF f.kind = "missing" THEN NoProgress
    ELSE IF f.kind = "corrupt" THEN [total_observations |-> 0]
    ELSE f.doc

\* the file is "missing", "corrupt" (opened for writing and not yet dumped,
\* or cut short) or holds a JSON document
load_progress(f) ==
    IF f.kind = "missing" THEN NoProgress
    ELSE IF f.kind = "corrupt" THEN NoProgress
    ELSE f.doc

\* ----------------------------------------------------------- raw values
\* a raw scalar of an archive row: absent, a number, or text that is no number
Absent == [k |-> "none"]
Num(n) == [k |-> "num", v |-> n]
Text(t) == [k |-> "str", v |-> t]
Null == [k |-> "null"]

\* Python truthiness of a raw scalar
Truthy(x) == \/ x.k = "num" /\ x.v # 0
             \/ x.k = "str"

\* float(x): a number converts, text that is no number raises ValueError
FloatRaises(x) == x.k = "str"

\* float(obs.get(f)) if obs.get(f) else None
FloatOrNone(x) == IF Truthy(x) THEN Num(x.v) ELSE Null

\* the conversion of a truthy raw scalar raises (float, int: ValueError)
ConvRaises(x) == Truthy(x) /\ FloatRaises(x)

\* Time(obs['t_min'], format='mjd').datetime inside try/except: a value that
\* is no MJD number leaves obs_date None
ObsDate(x) ==
    IF Truthy(x) /\ x.k = "num" THEN [k |-> "datetime", mjd |-> x.v] ELSE Null

\* wavelengths are integers in units of 1e-6: 0.001 is 1000, 1e6 is the factor
WlThreshold == 1000
WlFactor == 1000000

\* mutant: every wavelength is taken to be in meters
ToMicrons_Always(wl) == wl * WlFactor

\* wl * 1e6 if wl < 0.001 else wl
ToMicrons(wl) == IF wl < WlThreshold THEN wl * WlFactor ELSE wl

Upper(tok) ==
    CASE tok = "prism" -> "PRISM"
      [] tok = "g140" -> "G140"
      [] OTHER -> tok

\* any(keyword in filters.upper() for keyword in grating_keywords)
HasGrating(filters) ==
    \E i \in 1..Len(filters) :
        Upper(filters[i]) \in {"PRISM", "G140", "G235", "G395", "G150"}

\* extract_spectrum_metadata, with the .get() defaults of its caller: a key
\* that is not set reads as None
extract_spectrum_metadata(obs) ==
    [spectral_resolution |-> FloatOrNone(obs.em_res_power),
     wavelength_min |-> IF Truthy(obs.em_min) THEN Num(ToMicrons(obs.em_min.v)) ELSE Null,
     wavelength_max |-> IF Truthy(obs.em_max) THEN Num(ToMicrons(obs.em_max.v)) ELSE Null,
     grating |-> IF obs.filters # <<>> /\ HasGrating(obs.filters) THEN obs.filters ELSE None]

\* extract_spectrum_metadata raises on a truthy value that is no number
SpectrumRaises(obs) ==
    ConvRaises(obs.em_res_power) \/ ConvRaises(obs.em_min) \/ ConvRaises(obs.em_max)

\* building the metadata dict of a row raises
RowRaises(obs) ==
    \/ ConvRaises(obs.s_ra)
    \/ ConvRaises(obs.t_exptime)
    \/ ConvRaises(obs.calib_level)
    \/ obs.dataproduct_type = "spectrum" /\ SpectrumRaises(obs)

\* a or b, on identifiers
Or(a, b) == IF a # 0 THEN a ELSE b

\* ------------------------------------------------------------ URL helpers
Lower(tok) ==
    CASE tok = ".FITS" -> ".fits"
      [] tok = ".JPG" -> ".jpg"
      [] tok = ".JPEG" -> ".jpeg"
      [] tok = ".PNG" -> ".png"
      [] OTHER -> tok

StartsWith(u, tok) == u # <<>> /\ Head(u) = tok

EndsWithAny(u, exts) == u # <<>> /\ Lower(Last(u)) \in exts

DownloadPrefix == <<"http", "s://mast.stsci.edu/api/v0.1/Download/file?uri=">>

mast_to_public_url(u) ==
    IF u = <<>> THEN None
    ELSE IF StartsWith(u, "http") THEN u
    ELSE IF StartsWith(u, "mast:") THEN DownloadPrefix \o u
    ELSE IF EndsWithAny(u, {".fits", ".jpg", ".jpeg", ".png"})
         THEN DownloadPrefix \o <<"mast:", "JWST/product/">> \o u
    ELSE None

extract_preview_url(prod) ==
    IF prod.jpegURL # <<>> THEN mast_to_public_url(prod.jpegURL)
    ELSE IF prod.pngURL # <<>> THEN mast_to_public_url(prod.pngURL)
    ELSE IF prod.dataURI # <<>> /\ prod.dataproduct_type = "image"
         THEN mast_to_public_url(prod.dataURI)
    ELSE IF prod.productFilename # <<>> THEN mast_to_public_url(prod.productFilename)
    ELSE None

extract_fits_url(prod) ==
    IF EndsWithAny(prod.dataURI, {".fits"}) THEN mast_to_public_url(prod.dataURI)
    ELSE IF EndsWithAny(prod.productFilename, {".fits"})
         THEN mast_to_public_url(prod.productFilename)
    ELSE IF EndsWithAny(prod.dataURL, {".fits"}) THEN mast_to_public_url(prod.dataURL)
    ELSE None

\* the loop over the product list in fetch_month: the first product that
\* yields a preview, the first that yields a FITS URL, stop when both are set
RECURSIVE ResolveFrom(_, _, _)
ResolveFrom(products, preview, fits) ==
    IF products = <<>> \/ (preview # None /\ fits # None)
    THEN [preview |-> preview, fits |-> fits]
    ELSE LET prod == Head(products)
             p == IF preview = None THEN extract_preview_url(prod) ELSE preview
             f == IF fits = None THEN extract_fits_url(prod) ELSE fits
         IN ResolveFrom(Tail(products), p, f)

ResolveUrls(products) == ResolveFrom(products, None, None)

\* ------------------------------------------------- the archive's answers
\* one candidate file of a product listing
Prod(filename, uri, rights) ==
    [productFilename |-> filename, dataURI |-> uri, jpegURL |-> <<>>,
     pngURL |-> <<>>, dataURL |-> <<>>, dataproduct_type |-> "image",
     dataRights |-> rights]

\* one row of a catalog result, with what the archive answers to the
\* product-listing query for it: listFails failures before the listing
Obs(id, type, ra, listFails, products) ==
    [obsid |-> id, obs_id |-> 0, dataproduct_type |-> type, s_ra |-> ra,
     t_min |-> Num(59000), t_exptime |-> Num(100), calib_level |-> Num(3),
     em_res_power |-> Num(1000), em_min |-> Num(2), em_max |-> Num(3500000),
     filters |-> <<"g140", "m">>,
     listFails |-> listFails, products |-> products]

FitsPublic == Prod(<<"a", ".fits">>, <<"mast:", "JWST/product/a", ".fits">>, "PUBLIC")
JpgPublic == Prod(<<"b", ".jpg">>, <<"mast:", "JWST/product/b", ".jpg">>, "PUBLIC")
FitsPrivate == Prod(<<"p", ".fits">>, <<"mast:", "JWST/product/p", ".fits">>, "EXCLUSIVE_ACCESS")
PngPrivate == Prod(<<"c", ".PNG">>, <<>>, "EXCLUSIVE_ACCESS")
TxtPublic == Prod(<<"readme", ".txt">>, <<>>, "PUBLIC")

\* the candidate list of the resolver example of the specification
ExampleProducts == <<FitsPublic, JpgPublic, PngPrivate>>

Good(id, ra) == Obs(id, "image", Num(ra), 0, <<FitsPublic, JpgPublic>>)

\* the end-to-end scenario of the specification and the per-row skips
CatMixed ==
    << Good(1, 10),
       Obs(2, "image", Num(11), 0, <<FitsPrivate, PngPrivate>>),
       Obs(0, "image", Num(12), 0, <<FitsPublic>>),
       Obs(3, "spectrum", Num(13), 1, <<FitsPublic>>),
       Obs(4, "image", Absent, 0, <<>>),
       Obs(5, "image", Num(0), 0, <<TxtPublic>>),
       Obs(6, "image", Num(14), 0, ExampleProducts),
       [Obs(11, "spectrum", Num(17), 0, <<FitsPublic>>) EXCEPT !.t_min = Text("bad")] >>

\* a row whose coordinate is no number
CatBad == << Good(8, 15), Obs(9, "image", Text("bad"), 0, <<FitsPublic>>) >>

\* the same identifier listed twice in one month, in two batches: BatchSize
\* rows, then the first identifier again, then one more
CatLong ==
    [i \in 1..(BatchSize + 2) |->
        IF i <= BatchSize THEN Good(100 + i, i)
        ELSE IF i = BatchSize + 1 THEN Good(101, 1)
        ELSE Good(7, 16)]

\* more than one batch, no identifier twice; its first row is observation 1
\* of CatMixed, listed for this month too, with another coordinate
CatLongOk ==
    [i \in 1..(BatchSize + 1) |-> IF i = 1 THEN Good(1, 20) ELSE Good(200 + i, i)]

Catalogs == {<<>>, CatMixed, CatBad, CatLong, CatLongOk}

\* -------------------------------------------------------------- session
\* obs_id column: unique
ObsIds(records) == {records[i].obs_id : i \in 1..Len(records)}

Unique(records) ==
    \A i, j \in 1..Len(records) : records[i].obs_id = records[j].obs_id => i = j

\* mutant: a failing commit is swallowed and the run goes on
Commit_Swallow(s, dbOk) ==
    IF ~dbOk \/ ~Unique(s.table \o s.pending)
    THEN [s EXCEPT !.pending = <<>>, !.error = "db"]
    ELSE [s EXCEPT !.table = s.table \o s.pending, !.pending = <<>>]

\* mutant: the obs_id column carries no unique constraint
Commit_NoConstraint(s, dbOk) ==
    IF ~dbOk
    THEN [s EXCEPT !.pending = <<>>, !.status = "raise", !.error = "db"]
    ELSE [s EXCEPT !.table = s.table \o s.pending, !.pending = <<>>]

\* mutant: a failing commit also removes what was committed before
Commit_RollbackAll(s, dbOk) ==
    IF ~dbOk
    THEN [s EXCEPT !.table = <<>>, !.pending = <<>>, !.status = "raise", !.error = "db"]
    ELSE IF ~Unique(s.table \o s.pending)
    THEN [s EXCEPT !.table = <<>>, !.pending = <<>>, !.status = "raise",
                   !.error = "integrity"]
    ELSE [s EXCEPT !.table = s.table \o s.pending, !.pending = <<>>]

\* db.commit(): flush the added objects in one transaction; a violated unique
\* constraint (IntegrityError) or a failing database rolls the transaction back
Commit(s, dbOk) ==
    IF ~dbOk
    THEN [s EXCEPT !.pending = <<>>, !.status = "raise", !.error = "db"]
    ELSE IF ~Unique(s.table \o s.pending)
    THEN [s EXCEPT !.pending = <<>>, !.status = "raise", !.error = "integrity"]
    ELSE [s EXCEPT !.table = s.table \o s.pending, !.pending = <<>>]

\* mutant: a row that cannot be used ends the run
Skip_Raise(s) == [s EXCEPT !.pending = <<>>, !.status = "raise", !.error = "row"]

Skip(s) == [s EXCEPT !.skipped = @ + 1]

\* mutant: the spectrum fields are filled in for every row
Metadata_AlwaysSpectrum(obsid, obs, urls, now) ==
    LET meta == extract_spectrum_metadata(obs)
    IN
    [obs_id |-> obsid,
     ra |-> FloatOrNone(obs.s_ra),
     observation_date |-> ObsDate(obs.t_min),
     preview_url |-> urls.preview,
     fits_url |-> urls.fits,
     exposure_time |-> FloatOrNone(obs.t_exptime),
     dataproduct_type |-> obs.dataproduct_type,
     calib_level |-> FloatOrNone(obs.calib_level),
     spectral_resolution |-> meta.spectral_resolution,
     wavelength_min |-> meta.wavelength_min,
     wavelength_max |-> meta.wavelength_max,
     grating |-> meta.grating,
     dispersion_axis |-> Null,
     slit_width |-> Null,
     updated_at |-> now]

\* the metadata dict of one row
Metadata(obsid, obs, urls, now) ==
    LET spectrum == obs.dataproduct_type = "spectrum"
        meta == extract_spectrum_metadata(obs)
    IN
    [obs_id |-> obsid,
     ra |-> FloatOrNone(obs.s_ra),
     observation_date |-> ObsDate(obs.t_min),
     preview_url |-> urls.preview,
     fits_url |-> urls.fits,
     exposure_time |-> FloatOrNone(obs.t_exptime),
     dataproduct_type |-> obs.dataproduct_type,
     calib_level |-> FloatOrNone(obs.calib_level),
     spectral_resolution |-> IF spectrum THEN meta.spectral_resolution ELSE Null,
     wavelength_min |-> IF spectrum THEN meta.wavelength_min ELSE Null,
     wavelength_max |-> IF spectrum THEN meta.wavelength_max ELSE Null,
     grating |-> IF spectrum THEN meta.grating ELSE None,
     dispersion_axis |-> Null,
     slit_width |-> Null,
     updated_at |-> now]

\* a remote call as the code places it: one attempt, which succeeds when the
\* archive does not fail
RemoteCall(kind, fails) ==
    [kind |-> kind, fails |-> fails, attempts |-> 1, ok |-> fails = 0]

\* Observations.get_product_list(obs)
ListCall(obs) == RemoteCall("listing", obs.listFails)

\* the table with the record of rec's obs_id replaced by rec
Replaced(tbl, rec) ==
    [j \in 1..Len(tbl) |-> IF tbl[j].obs_id = rec.obs_id THEN rec ELSE tbl[j]]

\* mutant: a stored identifier is not skipped, its record is overwritten
ProcessObs_Upsert(s, obs, existing, now, dbOk) ==
    LET s1 == [s EXCEPT !.processed = @ + 1]
        obsid == Or(obs.obsid, obs.obs_id)
        s2 == [s1 EXCEPT !.call = ListCall(obs)]
        urls == ResolveUrls(obs.products)
    IN  IF obsid = 0 THEN Skip(s1)
        ELSE IF ~s2.call.ok THEN Skip(s2)
        ELSE IF Len(obs.products) = 0 THEN Skip(s2)
        ELSE IF urls.preview = None /\ urls.fits = None THEN Skip(s2)
        ELSE IF RowRaises(obs)
             THEN [s2 EXCEPT !.pending = <<>>, !.status = "raise", !.error = "value"]
        ELSE IF obsid \in existing
             THEN [s2 EXCEPT !.table = Replaced(@, Metadata(obsid, obs, urls, now))]
        ELSE LET s3 == [s2 EXCEPT !.pending = Append(@, Metadata(obsid, obs, urls, now)),
                                  !.added = @ + 1]
             IN IF s3.added % BatchSize = 0 THEN Commit(s3, dbOk) ELSE s3

\* mutant: the loop commits nothing, all rows wait for the commit after it
ProcessObs_NoBatch(s, obs, existing, now, dbOk) ==
    LET s1 == [s EXCEPT !.processed = @ + 1]
        obsid == Or(obs.obsid, obs.obs_id)
        s2 == [s1 EXCEPT !.call = ListCall(obs)]
        urls == ResolveUrls(obs.products)
    IN  IF obsid = 0 THEN Skip(s1)
        ELSE IF obsid \in existing THEN Skip(s1)
        ELSE IF ~s2.call.ok THEN Skip(s2)
        ELSE IF Len(obs.products) = 0 THEN Skip(s2)
        ELSE IF urls.preview = None /\ urls.fits = None THEN Skip(s2)
        ELSE IF RowRaises(obs)
             THEN [s2 EXCEPT !.pending = <<>>, !.status = "raise", !.error = "value"]
        ELSE [s2 EXCEPT !.pending = Append(@, Metadata(obsid, obs, urls, now)),
                        !.added = @ + 1]

\* mutant: a row is stored also when no URL resolves from its products
ProcessObs_NoUrlCheck(s, obs, existing, now, dbOk) ==
    LET s1 == [s EXCEPT !.processed = @ + 1]
        obsid == Or(obs.obsid, obs.obs_id)
        s2 == [s1 EXCEPT !.call = ListCall(obs)]
        urls == ResolveUrls(obs.products)
    IN  IF obsid = 0 THEN Skip(s1)
        ELSE IF obsid \in existing THEN Skip(s1)
        ELSE IF ~s2.call.ok THEN Skip(s2)
        ELSE IF RowRaises(obs)
             THEN [s2 EXCEPT !.pending = <<>>, !.status = "raise", !.error = "value"]
        ELSE LET s3 == [s2 EXCEPT !.pending = Append(@, Metadata(obsid, obs, urls, now)),
                                  !.added = @ + 1]
             IN IF s3.added % BatchSize = 0 THEN Commit(s3, dbOk) ELSE s3

\* one pass of the body of the loop over obs_table
ProcessObs(s, obs, existing, now, dbOk) ==
    LET s1 == [s EXCEPT !.processed = @ + 1]
        obsid == Or(obs.obsid, obs.obs_id)
        s2 == [s1 EXCEPT !.call = ListCall(obs)]
        urls == ResolveUrls(obs.products)
    IN  IF obsid = 0 THEN Skip(s1)
        ELSE IF obsid \in existing THEN Skip(s1)
        ELSE IF ~s2.call.ok THEN Skip(s2)
        ELSE IF Len(obs.products) = 0 THEN Skip(s2)
        ELSE IF urls.preview = None /\ urls.fits = None THEN Skip(s2)
        ELSE IF RowRaises(obs)
             THEN [s2 EXCEPT !.pending = <<>>, !.status = "raise", !.error = "value"]
        ELSE LET s3 == [s2 EXCEPT !.pending = Append(@, Metadata(obsid, obs, urls, now)),
                                  !.added = @ + 1]
             IN IF s3.added % BatchSize = 0 THEN Commit(s3, dbOk) ELSE s3

\* mutant: once one row of the month is stored, the whole month counts as stored
ExistingObsIds_AllIfAny(tbl, rows) ==
    LET ids == {Or(rows[i].obsid, rows[i].obs_id) : i \in 1..Len(rows)}
    IN IF ObsIds(tbl) \cap ids = {} THEN {} ELSE ids

\* existing_obs_ids: the stored identifiers among those of the catalog result
ExistingObsIds(tbl, rows) ==
    ObsIds(tbl) \cap {Or(rows[i].obsid, rows[i].obs_id) : i \in 1..Len(rows)}

NoCall == [kind |-> "none", fails |-> 0, attempts |-> 0, ok |-> TRUE]

\* the session at the start of the loop
NewSession(tbl, call) ==
    [table |-> tbl, pending |-> <<>>, added |-> 0, skipped |-> 0, processed |-> 0,
     status |-> "run", error |-> "none", call |-> call]

\* the loop of fetch_month over the rows that are left, until one raises
RECURSIVE RunRows(_, _, _, _)
RunRows(s, rows, existing, now) ==
    IF s.status = "raise" \/ rows = <<>> THEN s
    ELSE CHOOSE r \in {RunRows(x, Tail(rows), existing, now) :
                          x \in {ProcessObs(s, Head(rows), existing, now, TRUE)}} : TRUE

\* fetch_month on the catalog result rows, from the table tbl, with a database
\* that does not fail: the session when it returns or raises
fetch_month(tbl, rows, now) ==
    IF Len(rows) = 0 THEN NewSession(tbl, NoCall)
    ELSE CHOOSE r \in {IF s.status = "raise" THEN s ELSE Commit(s, TRUE) :
                          s \in {RunRows(NewSession(tbl, NoCall), rows,
                                         ExistingObsIds(tbl, rows), now)}} : TRUE

\* ---------------------------------------------------------------- state
VARIABLES
    today,             \* datetime.now(): [year, month]
    clock,             \* the time of the current invocation, in invocations
    remote,            \* the archive: month key -> catalog result
    file,              \* progress.json
    table,             \* the committed rows of the observations table
    pc,                \* position of the invocation of main
    progress,          \* main: the loaded progress document
    next_month,        \* main: the month to process
    obs_table,         \* fetch_month: the catalog result
    existing_obs_ids,  \* fetch_month
    processed, added, skipped,
    pending,           \* the session's added and not yet committed objects
    error,             \* what was raised, "none" when nothing was
    lastCall,          \* the last remote call: its failures and its outcome
    everCompleted,     \* history: the months ever persisted as completed
    startTable,        \* history: the table when fetch_month began
    response,          \* the API: the last request and the handler that took it
    report,            \* show_progress: what it printed last
    other              \* an invocation of main that overlaps with this one

vars == <<today, clock, remote, file, table, pc, progress, next_month, obs_table,
          existing_obs_ids, processed, added, skipped, pending, error, lastCall,
          everCompleted, startTable, response, report, other>>

\* the number of months from 2022-01 to the current one
MonthCount(current) == Len(get_all_months(current))

\* the months the calendar may reach
MonthKeys ==
    {MonthKey(StartYear + ((n - 1) \div 12), ((n - 1) % 12) + 1) : n \in 1..MaxMonths}

\* no request was made yet
NoResponse == [path |-> <<>>, handler |-> "none", status |-> 0]

\* show_progress did not run yet
NoReport == [kind |-> "none"]

\* no other invocation is running
NoOther == [pc |-> "idle"]

Sess ==
    [table |-> table, pending |-> pending, added |-> added, skipped |-> skipped,
     processed |-> processed, status |-> "run", error |-> error, call |-> lastCall]

Running == pc \in {"query", "rows", "fetched", "save_open", "save_write"}

Init ==
    /\ today = [year |-> StartYear, month |-> 1]
    /\ clock = 0
    /\ remote \in [MonthKeys -> Catalogs]
    /\ file = [kind |-> "missing"]
    /\ table = <<>>
    /\ pc = "idle"
    /\ progress = NoProgress
    /\ next_month = None
    /\ obs_table = <<>>
    /\ existing_obs_ids = {}
    /\ processed = 0 /\ added = 0 /\ skipped = 0
    /\ pending = <<>>
    /\ error = "none"
    /\ lastCall = NoCall
    /\ everCompleted = {}
    /\ startTable = <<>>
    /\ response = NoResponse
    /\ report = NoReport
    /\ other = NoOther

\* the calendar moves on to the next month (between two invocations: main
\* reads the date only when it starts)
AdvanceMonth ==
    /\ ~Running
    /\ MonthCount(today) < MaxMonths
    /\ today' = IF today.month = 12 THEN [year |-> today.year + 1, month |-> 1]
                ELSE [today EXCEPT !.month = @ + 1]
    /\ UNCHANGED <<clock, remote, file, table, pc, progress, next_month, obs_table,
                   existing_obs_ids, processed, added, skipped, pending, error,
                   lastCall, everCompleted, startTable,
                   response, report, other>>

\* mutant: main saves the progress document, with a new last_run, also when
\* no month is pending
Start_SaveOnDone ==
    /\ ~Running
    /\ clock < MaxRuns
    /\ clock' = clock + 1
    /\ progress' = load_progress(file)
    /\ next_month' = get_next_month_to_process(progress', today)
    /\ pc' = IF next_month' = None THEN "done" ELSE "query"
    /\ file' = IF next_month' = None
             THEN [kind |-> "json",
                   doc |-> [completed_months |-> CompletedOf(progress'),
                            total_observations |-> progress'.total_observations,
                            last_run |-> clock']]
             ELSE file
    /\ obs_table' = <<>>
    /\ existing_obs_ids' = {}
    /\ processed' = 0 /\ added' = 0 /\ skipped' = 0
    /\ pending' = <<>>
    /\ error' = "none"
    /\ lastCall' = NoCall
    /\ startTable' = table
    /\ UNCHANGED <<today, remote, table, everCompleted,
                   response, report, other>>

\* main up to the choice of the month: load_progress, get_next_month_to_process
Start ==
    /\ ~Running
    /\ clock < MaxRuns
    /\ clock' = clock + 1
    /\ progress' = load_progress(file)
    /\ next_month' = get_next_month_to_process(progress', today)
    /\ pc' = IF next_month' = None THEN "done" ELSE "query"
    /\ obs_table' = <<>>
    /\ existing_obs_ids' = {}
    /\ processed' = 0 /\ added' = 0 /\ skipped' = 0
    /\ pending' = <<>>
    /\ error' = "none"
    /\ lastCall' = NoCall
    /\ startTable' = table
    /\ UNCHANGED <<today, remote, file, table, everCompleted,
                   response, report, other>>

\* fetch_month up to the loop: the catalog query, the early return on an empty
\* result, the query for the stored identifiers
QueryCatalog ==
    /\ pc = "query"
    /\ \E f \in FailCounts :
        /\ lastCall' = RemoteCall("catalog", f)
        /\ IF ~lastCall'.ok
           THEN /\ pc' = "aborted"
                /\ error' = "remote"
                /\ UNCHANGED <<obs_table, existing_obs_ids>>
           ELSE /\ obs_table' = remote[next_month]
                /\ existing_obs_ids' = ExistingObsIds(table, obs_table')
                /\ pc' = IF Len(obs_table') = 0 THEN "fetched" ELSE "rows"
                /\ UNCHANGED error
    /\ UNCHANGED <<today, clock, remote, file, table, progress, next_month, processed,
                   added, skipped, pending, everCompleted, startTable,
                   response, report, other>>

\* the variables of the session after a step of fetch_month
SessionBecomes(s) ==
    /\ table' = s.table
    /\ pending' = s.pending
    /\ added' = s.added
    /\ skipped' = s.skipped
    /\ processed' = s.processed
    /\ error' = s.error
    /\ lastCall' = s.call

\* one row of the loop, with the batch commit when added reaches a multiple of 25
ProcessRow ==
    /\ pc = "rows"
    /\ processed < Len(obs_table)
    /\ \E dbOk \in BOOLEAN :
        LET s == ProcessObs(Sess, obs_table[processed + 1], existing_obs_ids, clock, dbOk)
        IN /\ SessionBecomes(s)
           /\ pc' = IF s.status = "raise" THEN "aborted" ELSE "rows"
    /\ UNCHANGED <<today, clock, remote, file, progress, next_month, obs_table,
                   existing_obs_ids, everCompleted, startTable,
                   response, report, other>>

\* mutant: fetch_month returns after the loop without the last commit
FinalCommit_NoCommit ==
    /\ pc = "rows"
    /\ processed = Len(obs_table)
    /\ pending' = <<>>
    /\ pc' = "fetched"
    /\ UNCHANGED <<today, clock, remote, file, table, progress, next_month, obs_table,
                   existing_obs_ids, processed, added, skipped, error, lastCall,
                   everCompleted, startTable, response, report, other>>

\* the commit after the loop, db.close() and the return
FinalCommit ==
    /\ pc = "rows"
    /\ processed = Len(obs_table)
    /\ \E dbOk \in BOOLEAN :
        LET s == Commit(Sess, dbOk)
        IN /\ SessionBecomes(s)
           /\ pc' = IF s.status = "raise" THEN "aborted" ELSE "fetched"
    /\ UNCHANGED <<today, clock, remote, file, progress, next_month, obs_table,
                   existing_obs_ids, everCompleted, startTable,
                   response, report, other>>

\* mutant: the completed list is started afresh with the month of this run
UpdatedProgress_Overwrite(p, month, total, now) ==
    [completed_months |-> <<month>>,
     total_observations |-> total,
     last_run |-> now]

\* mutant: the row count is added to the total of the loaded document
UpdatedProgress_AddTotal(p, month, total, now) ==
    [completed_months |-> IF month \in Range(p.completed_months)
                          THEN p.completed_months
                          ELSE Append(p.completed_months, month),
     total_observations |-> p.total_observations + total,
     last_run |-> now]

\* main after fetch_month returned: the month is appended, the rows are counted
UpdatedProgress(p, month, total, now) ==
    [completed_months |-> IF month \in Range(p.completed_months)
                          THEN p.completed_months
                          ELSE Append(p.completed_months, month),
     total_observations |-> total,
     last_run |-> now]

UpdateProgress ==
    /\ pc = "fetched"
    /\ IF "completed_months" \in DOMAIN progress
       THEN /\ progress' = UpdatedProgress(progress, next_month, Len(table), clock)
            /\ pc' = "save_open"
            /\ UNCHANGED error
       ELSE /\ pc' = "aborted"
            /\ error' = "key"
            /\ UNCHANGED progress
    /\ UNCHANGED <<today, clock, remote, file, table, next_month, obs_table,
                   existing_obs_ids, processed, added, skipped, pending, lastCall,
                   everCompleted, startTable,
                   response, report, other>>

\* save_progress: open(PROGRESS_FILE, 'w') truncates the file ...
SaveOpen ==
    /\ pc = "save_open"
    /\ file' = [kind |-> "corrupt"]
    /\ pc' = "save_write"
    /\ UNCHANGED <<today, clock, remote, table, progress, next_month, obs_table,
                   existing_obs_ids, processed, added, skipped, pending, error,
                   lastCall, everCompleted, startTable,
                   response, report, other>>

\* mutant: after saving, main goes on with the next pending month
SaveWrite_Loop ==
    /\ pc = "save_write"
    /\ file' = [kind |-> "json", doc |-> progress]
    /\ next_month' = get_next_month_to_process(progress, today)
    /\ pc' = IF next_month' = None THEN "done" ELSE "query"
    /\ everCompleted' = everCompleted \cup Range(CompletedOf(progress))
    /\ UNCHANGED <<today, clock, remote, table, progress, obs_table,
                   existing_obs_ids, processed, added, skipped, pending, error,
                   lastCall, startTable,
                   response, report, other>>

\* ... and json.dump writes the document
SaveWrite ==
    /\ pc = "save_write"
    /\ file' = [kind |-> "json", doc |-> progress]
    /\ pc' = "done"
    /\ everCompleted' = everCompleted \cup Range(CompletedOf(progress))
    /\ UNCHANGED <<today, clock, remote, table, progress, next_month, obs_table,
                   existing_obs_ids, processed, added, skipped, pending, error,
                   lastCall, startTable,
                   response, report, other>>

\* the process is terminated from outside: what the session has not
\* committed is lost, the files stay as they are
Kill ==
    /\ Running
    /\ pc' = "killed"
    /\ pending' = <<>>
    /\ UNCHANGED <<today, clock, remote, file, table, progress, next_month, obs_table,
                   existing_obs_ids, processed, added, skipped, error, lastCall,
                   everCompleted, startTable,
                   response, report, other>>

Next ==
    \/ AdvanceMonth
    \/ Start
    \/ QueryCatalog
    \/ ProcessRow
    \/ FinalCommit
    \/ UpdateProgress
    \/ SaveOpen
    \/ SaveWrite

Spec == Init /\ [][Next]_vars

\* sequential invocations, any of which may be terminated at any point
NextKill == Next \/ Kill

SpecKill == Init /\ [][NextKill]_vars

\* ================================================================ claims
\* the months of the persisted checkpoint, as the next invocation loads them
Persisted == Range(CompletedOf(load_progress(file)))

\* int(year) * 12 + int(month) of a month key, as month_to_mjd_range parses it
MonthNo(key) == key[1] * 12 + key[3] * 10 + key[4]

\* C1: a month enters the persisted completed_months only in the invocation
\* that fetched it and in which nothing was raised; a step that aborts the run
\* (catalog query, row or commit raised) leaves the progress file as it was
\* loaded, so that the aborted month is still the one selected; and the
\* invocation after an abort selects that month again (or a month the
\* calendar has added since).
C1_CompletedOnlyAfterFetch ==
    [][ /\ \A m \in everCompleted' \ everCompleted :
              pc = "save_write" /\ m = next_month /\ error = "none"
              /\ processed = Len(obs_table) /\ pending = <<>>
        /\ (pc' = "aborted" /\ pc # "aborted") =>
              /\ file' = file
              /\ load_progress(file') = progress'
              /\ get_next_month_to_process(load_progress(file'), today') = next_month'
        /\ (pc = "aborted" /\ clock' # clock) =>
              \/ next_month' = next_month
              \/ /\ next_month' # None
                 /\ MonthNo(next_month') > MonthNo(next_month)
      ]_vars

C1_Witness ==
    /\ pc = "query"
    /\ clock >= 2
    /\ error = "none"
    /\ everCompleted # {}
    /\ Len(table) >= BatchSize
    /\ next_month \notin everCompleted
    /\ file.kind = "json"
    /\ Len(table) > file.doc.total_observations

\* C2: between invocations every month ever recorded as completed is in the
\* persisted completed_months, and no invocation selects such a month.
C2_CheckpointMonotonic ==
    /\ ~Running => everCompleted \subseteq Persisted
    /\ pc \in {"query", "rows", "fetched"} => next_month \notin everCompleted

C2_Witness ==
    /\ pc = "query"
    /\ Cardinality(everCompleted) >= 1
    /\ next_month # None

\* C3: no two committed rows of the observations table share an obs_id.
C3_UniqueObsId == Unique(table)

C3_Witness ==
    /\ pc = "aborted"
    /\ error = "integrity"
    /\ table # <<>>

\* C10: the month selected at the start of an invocation is the latest month
\* of get_all_months that is not completed, and it is None exactly when every
\* month of the sequence is completed.
C10_LatestPending ==
    [][ clock' # clock =>
          LET all == Range(get_all_months(today'))
              left == all \ Range(CompletedOf(progress'))
          IN /\ (next_month' = None) <=> (left = {})
             /\ left # {} =>
                  /\ next_month' \in left
                  /\ \A m \in left : MonthNo(m) <= MonthNo(next_month')
      ]_vars

C10_Witness ==
    /\ pc = "query"
    /\ MonthCount(today) >= 2
    /\ next_month = MonthKey(StartYear, 1)
    /\ everCompleted # {}

C10_WitnessNone ==
    /\ pc = "done"
    /\ next_month = None

\* a row that the loop would store: it has an identifier, its product listing
\* is answered, a URL resolves and its values convert
Ingestible(obs) ==
    /\ Or(obs.obsid, obs.obs_id) # 0
    /\ obs.listFails = 0
    /\ LET urls == ResolveUrls(obs.products)
       IN urls.preview # None \/ urls.fits # None
    /\ ~RowRaises(obs)

IsPrefix(a, b) == Len(a) <= Len(b) /\ \A i \in 1..Len(a) : a[i] = b[i]

\* the stored records without their audit timestamp
Stored(tbl) == {[tbl[i] EXCEPT !.updated_at = 0] : i \in 1..Len(tbl)}

\* C4 (as claimed): when fetch_month has run on a month (returned, or raised
\* on the data itself), running it again on the same catalog result and the
\* same product listings leaves the table as it is.
C4_Idempotent ==
    (pc \in {"fetched", "aborted"} /\ error \in {"none", "integrity", "value"}) =>
        fetch_month(table, remote[next_month], clock + 1).table = table

IsPublic(prod) == prod.dataRights \in {"PUBLIC", "Public", "public"}

\* C6 (as claimed): an observation whose product listing has no public
\* product is never stored.
C6_NoPublicNeverStored ==
    \A k \in DOMAIN remote :
        \A i \in 1..Len(remote[k]) :
            LET obs == remote[k][i]
            IN (\A n \in 1..Len(obs.products) : ~IsPublic(obs.products[n])) =>
                   Or(obs.obsid, obs.obs_id) \notin ObsIds(table)

\* C7 (as claimed): a remote call is attempted up to 5 times: one that fails
\* at most 4 times succeeds, one that fails 5 times has made 5 attempts and
\* fails.
C7_RetryBound ==
    lastCall.kind # "none" =>
        /\ lastCall.fails <= 4 => (lastCall.ok /\ lastCall.attempts = lastCall.fails + 1)
        /\ lastCall.fails >= 5 => (~lastCall.ok /\ lastCall.attempts = 5)

\* C8 (as claimed): whenever no invocation is running, also after one was
\* terminated, every month ever recorded as completed is in the checkpoint
\* the next invocation loads, and a terminated invocation's month is pending.
C8_CrashSafe ==
    /\ pc \in {"idle", "done", "aborted", "killed"} => everCompleted \subseteq Persisted
    /\ pc = "killed" => next_month \notin Persisted

\* C9: a step that aborts fetch_month removes no committed record (the
\* batches committed before it stay in the table); when both the re-run from
\* the table the abort left and the uninterrupted run from the table the run
\* began with return, they end with the same stored records and no identifier
\* twice; and a run that returns has stored what fetch_month computes.
C9_RerunAfterAbort ==
    [][ /\ (pc = "rows" /\ pc' = "aborted") =>
              /\ IsPrefix(table, table')
              /\ IsPrefix(startTable', table')
              /\ \A rerun \in {fetch_month(table', obs_table', clock' + 1)},
                    clean \in {fetch_month(startTable', obs_table', clock')} :
                    (rerun.status = "run" /\ clean.status = "run") =>
                        /\ Stored(rerun.table) = Stored(clean.table)
                        /\ Unique(rerun.table)
                        /\ IsPrefix(table', rerun.table)
        /\ (pc = "rows" /\ pc' = "fetched") =>
              table' = fetch_month(startTable', obs_table', clock').table
      ]_vars

\* a commit failed after a whole batch had been committed, and the re-run returns
C9_Witness ==
    /\ pc = "aborted"
    /\ error = "db"
    /\ Len(table) >= Len(startTable) + BatchSize
    /\ \E rerun \in {fetch_month(table, obs_table, clock + 1)} :
          /\ rerun.status = "run"
          /\ Len(rerun.table) > Len(table)
    /\ fetch_month(startTable, obs_table, clock).status = "run"

\* ------------------------------------------------------------- resolver
\* every row any month of the archive lists
SourceRows == UNION {Range(remote[m]) : m \in MonthKeys}

\* the locations a product can be resolved from
LocationsOf(prod) ==
    {mast_to_public_url(u) :
        u \in {prod.jpegURL, prod.pngURL, prod.dataURI, prod.productFilename}} \ {None}

\* C11 (as claimed): a record stored from the product list [a.fits public,
\* b.jpg public, c.png private] has a.fits as its data file and b.jpg as its
\* preview, and resolving the list again gives what was stored.
C11_ResolverExample ==
    \A obs \in SourceRows : \A i \in 1..Len(table) :
        (obs.obsid = table[i].obs_id /\ obs.products = ExampleProducts) =>
            /\ table[i].fits_url \in LocationsOf(FitsPublic)
            /\ table[i].preview_url \in LocationsOf(JpgPublic)
            /\ ResolveUrls(obs.products) =
                  [preview |-> table[i].preview_url, fits |-> table[i].fits_url]

\* the tiers of the preview selection: 1 an explicit preview asset, 2 a
\* filename ending in .jpg, .jpeg or .png, 3 any other candidate that yields
\* a preview, 4 no candidate
PreviewTier(prod) ==
    IF prod.jpegURL # <<>> \/ prod.pngURL # <<>> THEN 1
    ELSE IF EndsWithAny(prod.productFilename, {".jpg", ".jpeg", ".png"}) THEN 2
    ELSE IF extract_preview_url(prod) # None THEN 3
    ELSE 4

\* the earliest product of the best tier present in the list
BestPreview(products) ==
    CHOOSE i \in 1..Len(products) :
        \A j \in 1..Len(products) :
            \/ PreviewTier(products[i]) < PreviewTier(products[j])
            \/ PreviewTier(products[i]) = PreviewTier(products[j]) /\ i <= j

\* C12 (as claimed): the stored preview comes from the earliest product of
\* the highest-priority tier present anywhere in the row's product list; a
\* lower-tier product listed earlier never wins.
C12_PreviewByTier ==
    \A obs \in SourceRows : \A i \in 1..Len(table) :
        (obs.obsid = table[i].obs_id /\ obs.products # <<>>) =>
            \A best \in {obs.products[BestPreview(obs.products)]} :
                PreviewTier(best) < 4 => table[i].preview_url \in LocationsOf(best)

\* ----------------------------------------------------------- accounting
\* C13 (as claimed): when main is about to save after fetch_month returned,
\* the table has grown by the rows added in this run, the total to be saved
\* is the total of the file before the run plus that number, and the month
\* is in the completed list; also after an earlier aborted run.
C13_AccountingByDelta ==
    pc = "save_open" =>
        /\ Len(table) = Len(startTable) + added
        /\ progress.total_observations = load_progress(file).total_observations + added
        /\ next_month \in Range(progress.completed_months)

\* C13 (amended): after fetch_month returned the table has grown by exactly
\* the rows added in this run, every processed row was added or skipped, the
\* saved total is the number of rows of the table, and the month is in the
\* completed list.
C13_AccountingByCount ==
    /\ pc = "save_open" =>
          /\ Len(table) = Len(startTable) + added
          /\ added + skipped = processed
          /\ progress.total_observations = Len(table)
          /\ next_month \in Range(progress.completed_months)
    /\ (pc = "done" /\ next_month # None) =>
          /\ file.kind = "json"
          /\ file.doc.total_observations = Len(table)
          /\ Len(table) = Len(startTable) + added
          /\ next_month \in Persisted

\* a run that returns after an earlier run aborted with rows committed: the
\* table it began with holds more rows than the file counts
C13_Witness ==
    /\ pc = "save_open"
    /\ added >= 1
    /\ skipped >= 1
    /\ Len(startTable) > load_progress(file).total_observations

\* ------------------------------------------------------------- backfill
\* an invocation after the clock reached its bound: main as in Start, the
\* time stamp no longer grows
StartLater ==
    /\ ~Running
    /\ clock = MaxRuns
    /\ progress' = load_progress(file)
    /\ next_month' = get_next_month_to_process(progress', today)
    /\ pc' = IF next_month' = None THEN "done" ELSE "query"
    /\ obs_table' = <<>>
    /\ existing_obs_ids' = {}
    /\ processed' = 0 /\ added' = 0 /\ skipped' = 0
    /\ pending' = <<>>
    /\ error' = "none"
    /\ lastCall' = NoCall
    /\ startTable' = table
    /\ UNCHANGED <<today, clock, remote, file, table, everCompleted,
                   response, report, other>>

\* sequential invocations without end
NextLive == Next \/ StartLater

\* main is invoked again and again and an invocation runs on; a remote call
\* that is repeated does not fail every time, nor does a commit
Fairness ==
    /\ WF_vars(Start \/ StartLater)
    /\ WF_vars(QueryCatalog) /\ WF_vars(ProcessRow) /\ WF_vars(FinalCommit)
    /\ WF_vars(UpdateProgress) /\ WF_vars(SaveOpen) /\ WF_vars(SaveWrite)
    /\ SF_vars(QueryCatalog /\ pc' # "aborted")
    /\ SF_vars(ProcessRow /\ table' # table /\ pc' # "aborted")
    /\ SF_vars(FinalCommit /\ pc' # "aborted")

SpecLive == Init /\ [][NextLive]_vars /\ Fairness

\* the months of the document that main would still process
PendingMonths(doc, current) ==
    {m \in Range(get_all_months(current)) : m \notin Range(CompletedOf(doc))}

\* C14 (as claimed): repeated invocations reach an invocation that finds no
\* month pending; and an invocation that returns from fetch_month leaves one
\* pending month fewer in the document it saves.
C14_BackfillCompletes ==
    /\ <>(pc = "done" /\ next_month = None)
    /\ [][ /\ (pc = "fetched" /\ pc' = "save_open") =>
                Cardinality(PendingMonths(progress', today)) =
                    Cardinality(PendingMonths(progress, today)) - 1
           /\ (pc = "save_write" /\ pc' = "done") => file'.doc = progress
         ]_vars

\* ------------------------------------------------------------ invocation
\* C15: within one invocation of main the month chosen at its start is the
\* only one: fetch_month is entered once, from the start of the invocation
\* and for the month get_next_month_to_process returned; the catalog asked
\* for is that month's; and the saved document has at most that one month
\* more than the loaded one.
C15_OnePartition ==
    [][ /\ pc' = "query" =>
              /\ ~Running
              /\ next_month' = get_next_month_to_process(load_progress(file), today)
              /\ next_month' # None
        /\ Running => next_month' = next_month
        /\ (pc = "query" /\ pc' \in {"rows", "fetched"}) =>
              obs_table' = remote[next_month]
        /\ (pc = "fetched" /\ pc' = "save_open") =>
              Range(progress'.completed_months) \ Range(progress.completed_months)
                  \subseteq {next_month}
        /\ file' # file => (pc \in {"save_open", "save_write"} /\
                            (pc = "save_write" => file'.doc = progress))
        /\ everCompleted' \ everCompleted \subseteq {next_month}
      ]_vars

\* an invocation has completed a month and returned while another is pending
C15_Witness ==
    /\ pc = "done"
    /\ next_month # None
    /\ next_month \in Persisted
    /\ get_next_month_to_process(load_progress(file), today) # None

\* C16: an invocation that finds no month pending goes directly to its end:
\* it makes no remote call, writes no record, and leaves the progress file
\* (completed_months, total_observations, last_run) as it was; nothing of
\* that changes until the next invocation.
C16_NothingPending ==
    [][ /\ (~Running /\ clock' # clock /\ next_month' = None) =>
              /\ get_next_month_to_process(load_progress(file), today) = None
              /\ pc' = "done"
              /\ file' = file
              /\ table' = table
              /\ pending' = <<>>
              /\ lastCall' = NoCall
        /\ (pc = "done" /\ next_month = None /\ clock' = clock) =>
              /\ pc' = "done"
              /\ file' = file
              /\ table' = table
              /\ lastCall' = lastCall
      ]_vars

\* an invocation found every month completed by earlier invocations
C16_Witness ==
    /\ pc = "done"
    /\ next_month = None
    /\ lastCall = NoCall
    /\ file.kind = "json"
    /\ file.doc.last_run < clock
    /\ Len(file.doc.completed_months) = MonthCount(today)

\* -------------------------------------------------------------- per row
\* the row has no identifier, or its product listing cannot be fetched
Unusable(obs) == Or(obs.obsid, obs.obs_id) = 0 \/ ~ListCall(obs).ok

\* C17: a row without identifier, or whose product-listing call raises, is
\* skipped: it is counted as skipped, nothing is added or committed for it,
\* and the loop goes on with the next row; fetch_month returns only when
\* every row of the catalog result was processed, and the run that returned
\* saves its month as completed.
C17_RowFailuresSkipped ==
    [][ /\ (pc = "rows" /\ processed' = processed + 1
               /\ Unusable(obs_table[processed + 1])) =>
              /\ pc' = "rows"
              /\ skipped' = skipped + 1
              /\ added' = added
              /\ pending' = pending
              /\ table' = table
        /\ pc' = "fetched" => processed' = Len(obs_table')
        /\ (pc = "rows" /\ pc' = "rows") =>
              (processed' = processed + 1 /\ processed' <= Len(obs_table))
        /\ (pc = "save_write" /\ pc' = "done") =>
              /\ processed = Len(obs_table)
              /\ added + skipped = processed
              /\ file'.kind = "json"
              /\ next_month \in Range(file'.doc.completed_months)
      ]_vars

\* a month was completed whose catalog lists a row without identifier and a
\* row whose listing fails, and a row listed after both was stored by the run
C17_Witness ==
    /\ pc = "done"
    /\ next_month \in Persisted
    /\ \E i, j, k \in 1..Len(obs_table) :
          /\ Or(obs_table[i].obsid, obs_table[i].obs_id) = 0
          /\ obs_table[j].obsid # 0 /\ ~ListCall(obs_table[j]).ok
          /\ k > i /\ k > j
          /\ obs_table[k].obsid \in ObsIds(table) \ ObsIds(startTable)

\* C18 (as claimed): no conversion of a field value aborts the row or the
\* run: a run never ends on a conversion error, and a processed row whose
\* t_min or s_ra cannot be converted is stored with that field null.
C18_ConversionsTotal ==
    /\ error # "value"
    /\ \A i \in 1..processed :
          \A obs \in {obs_table[i]} :
              (Ingestible([obs EXCEPT !.s_ra = Absent]) /\ obs.obsid \notin existing_obs_ids
                 /\ (ConvRaises(obs.s_ra) \/ ConvRaises(obs.t_min))) =>
                  \E j \in 1..Len(table \o pending) :
                      \A rec \in {(table \o pending)[j]} :
                          /\ rec.obs_id = obs.obsid
                          /\ ConvRaises(obs.s_ra) => rec.ra = Null
                          /\ ConvRaises(obs.t_min) => rec.observation_date = Null

\* C19: the loop commits whenever the number of added records reaches a
\* multiple of 25, and fetch_month commits once more before it returns: while
\* the loop runs the added and not yet committed records are added modulo 25,
\* at most 24, and after the return there is none and every added record is
\* in the table.
C19_BatchedCommits ==
    /\ pc = "rows" =>
          /\ Len(pending) = added % BatchSize
          /\ Len(pending) <= BatchSize - 1
          /\ Len(table) = Len(startTable) + added - Len(pending)
    /\ (pc \in {"fetched", "save_open", "save_write"}
            \/ (pc = "done" /\ next_month # None)) =>
          /\ pending = <<>>
          /\ Len(table) = Len(startTable) + added

\* the loop has committed a batch of 25 and added one more record
C19_Witness ==
    /\ pc = "rows"
    /\ added = BatchSize + 1
    /\ Len(pending) = 1
    /\ Len(table) = Len(startTable) + BatchSize

\* C20: every stored record whose dataproduct_type is not 'spectrum' has
\* spectral_resolution, wavelength_min, wavelength_max, grating,
\* dispersion_axis and slit_width null, also when they were added and are
\* not committed yet.
C20_SpectrumFieldsOnlyForSpectra ==
    \A i \in 1..Len(table \o pending) :
        \A rec \in {(table \o pending)[i]} :
            rec.dataproduct_type # "spectrum" =>
                /\ rec.spectral_resolution = Null
                /\ rec.wavelength_min = Null
                /\ rec.wavelength_max = Null
                /\ rec.grating = None
                /\ rec.dispersion_axis = Null
                /\ rec.slit_width = Null

\* the table holds an image whose catalog row carries em_res_power, em_min,
\* em_max and a grating in filters, and a spectrum with these fields set
C20_Witness ==
    /\ \E i \in 1..Len(table) : \E obs \in Range(obs_table) :
          /\ table[i].dataproduct_type = "image"
          /\ obs.obsid = table[i].obs_id
          /\ obs.dataproduct_type = "image"
          /\ Truthy(obs.em_res_power) /\ Truthy(obs.em_min) /\ Truthy(obs.em_max)
          /\ HasGrating(obs.filters)
    /\ \E i \in 1..Len(table) :
          /\ table[i].dataproduct_type = "spectrum"
          /\ table[i].wavelength_min # Null
          /\ table[i].grating # None

\* ------------------------------------------------------------ wavelengths
\* the state of a first invocation, but for the calendar, the archive and
\* the progress file
Fresh ==
    /\ clock = 0
    /\ table = <<>>
    /\ pc = "idle"
    /\ progress = NoProgress
    /\ next_month = None
    /\ obs_table = <<>>
    /\ existing_obs_ids = {}
    /\ processed = 0 /\ added = 0 /\ skipped = 0
    /\ pending = <<>>
    /\ error = "none"
    /\ lastCall = NoCall
    /\ everCompleted = {}
    /\ startTable = <<>>
    /\ response = NoResponse
    /\ report = NoReport
    /\ other = NoOther

\* the em_min and em_max a catalog row may carry, in units of 1e-6: absent,
\* 0, 0.000001, 0.000002, 0.000999, 0.001, 0.001001, 3.5
WlInputs ==
    {Absent, Num(0), Num(1), Num(2), Num(999), Num(1000), Num(1001), Num(3500000)}

\* a spectrum with the given wavelength range
WlRow(lo, hi) ==
    [Obs(1, "spectrum", Num(10), 0, <<FitsPublic>>) EXCEPT !.em_min = lo, !.em_max = hi]

\* every month of the archive lists one spectrum, with any pair of inputs
InitWl ==
    /\ Fresh
    /\ today = [year |-> StartYear, month |-> 1]
    /\ file = [kind |-> "missing"]
    /\ \E lo, hi \in WlInputs : remote = [m \in MonthKeys |-> <<WlRow(lo, hi)>>]

SpecWl == InitWl /\ [][Next]_vars

\* the rule of the claim: below 0.001 times 1e6, otherwise unchanged
WlRule(v) == IF v < 1000 THEN v * 1000000 ELSE v

\* C21 (as claimed): every em_min and em_max that is a number is stored by
\* the rule, each on its own.
C21_WavelengthRule ==
    \A i \in 1..Len(table \o pending) : \A row \in SourceRows :
        \A rec \in {(table \o pending)[i]} :
            (rec.obs_id = row.obsid /\ rec.dataproduct_type = "spectrum") =>
                /\ row.em_min.k = "num" => rec.wavelength_min = Num(WlRule(row.em_min.v))
                /\ row.em_max.k = "num" => rec.wavelength_max = Num(WlRule(row.em_max.v))

\* C21 (amended): every em_min and em_max that is a number other than 0 is
\* stored by the rule, each on its own (0.000002 gives 2.0, 3.5 stays 3.5);
\* an absent value and 0 are stored as null.
C21_WavelengthRuleNonZero ==
    \A i \in 1..Len(table \o pending) : \A row \in SourceRows :
        \A rec \in {(table \o pending)[i]} :
            (rec.obs_id = row.obsid /\ rec.dataproduct_type = "spectrum") =>
                /\ (row.em_min.k = "num" /\ row.em_min.v # 0) =>
                      rec.wavelength_min = Num(WlRule(row.em_min.v))
                /\ (row.em_max.k = "num" /\ row.em_max.v # 0) =>
                      rec.wavelength_max = Num(WlRule(row.em_max.v))
                /\ (row.em_min = Absent \/ row.em_min = Num(0)) => rec.wavelength_min = Null
                /\ (row.em_max = Absent \/ row.em_max = Num(0)) => rec.wavelength_max = Null
                /\ row.em_min = Num(2) => rec.wavelength_min = Num(2000000)
                /\ row.em_max = Num(3500000) => rec.wavelength_max = Num(3500000)

\* a spectrum is stored whose em_min was 0.000002 and whose em_max was 3.5
C21_Witness ==
    \E i \in 1..Len(table) : \E row \in SourceRows :
        /\ table[i].obs_id = row.obsid
        /\ row.em_min = Num(2) /\ row.em_max = Num(3500000)
        /\ table[i].wavelength_min = Num(2000000)
        /\ table[i].wavelength_max = Num(3500000)

\* -------------------------------------------------------- progress file
\* the progress files an invocation may find: none, one that cannot be read
\* or parsed, a JSON document without the completed_months key, and a
\* document of an earlier run
StartFiles ==
    {[kind |-> "missing"],
     [kind |-> "corrupt"],
     [kind |-> "json", doc |-> [total_observations |-> 0]],
     [kind |-> "json",
      doc |-> [completed_months |-> <<MonthKey(StartYear, 1)>>,
               total_observations |-> 0, last_run |-> 0]]}

\* a first invocation on any of these files
InitFiles ==
    /\ Fresh
    /\ today = [year |-> StartYear, month |-> 1]
    /\ file \in StartFiles
    /\ remote \in [MonthKeys -> {<<>>, CatMixed}]

SpecFiles == InitFiles /\ [][Next]_vars

\* C22: an invocation that finds the progress file missing, or not parseable,
\* starts from no progress: load_progress gives an empty completed list and
\* a total of 0, nothing is raised, and the invocation goes on to fetch the
\* most recent month.
C22_NoFileNoProgress ==
    [][ (~Running /\ clock' # clock /\ file.kind \in {"missing", "corrupt"}) =>
            /\ progress' = [completed_months |-> <<>>, total_observations |-> 0]
            /\ next_month' = Last(get_all_months(today))
            /\ pc' = "query"
            /\ error' = "none"
      ]_vars

\* an invocation began on a file that cannot be parsed
C22_Witness ==
    /\ pc = "query"
    /\ file.kind = "corrupt"
    /\ progress = NoProgress
    /\ next_month = Last(get_all_months(today))

\* C27 (as claimed): whenever fetch_month has returned, main goes on to save
\* a document whose completed_months holds the month, whatever document
\* load_progress returned; and the save writes that document.
C27_ReturnedMonthSaved ==
    [][ /\ pc = "fetched" =>
              /\ pc' = "save_open"
              /\ next_month \in Range(CompletedOf(progress'))
        /\ pc = "save_open" => pc' = "save_write"
        /\ pc = "save_write" =>
              /\ pc' = "done"
              /\ next_month \in Range(CompletedOf(load_progress(file')))
      ]_vars

\* ---------------------------------------------------------- stored rows
\* C23: every record fetch_month has added, committed or not, has a
\* preview_url or a fits_url; a row from whose products neither resolves, or
\* with no product at all, is skipped and has no record.
C23_SomeUrlStored ==
    [][ /\ \A i \in 1..Len(table' \o pending') :
              \A rec \in {(table' \o pending')[i]} :
                  rec.preview_url # None \/ rec.fits_url # None
        /\ (pc = "rows" /\ processed' = processed + 1
              /\ \A urls \in {ResolveUrls(obs_table[processed + 1].products)} :
                    urls.preview = None /\ urls.fits = None) =>
              /\ added' = added
              /\ pending' = pending
              /\ table' = table
              /\ skipped' = skipped + 1
      ]_vars

\* a month was completed whose catalog lists a row with no product and a row
\* whose only product resolves to nothing, and another row of it was stored
C23_Witness ==
    /\ pc = "done"
    /\ added >= 1
    /\ \E i, j \in 1..Len(obs_table) :
          /\ obs_table[i].obsid # 0 /\ obs_table[i].products = <<>>
          /\ obs_table[i].obsid \notin ObsIds(table)
          /\ obs_table[j].obsid # 0 /\ obs_table[j].products = <<TxtPublic>>
          /\ obs_table[j].obsid \notin ObsIds(table)

\* C24: no step of the pipeline removes a committed record: the committed
\* rows stay, in their order, and the set of committed obs_id only grows,
\* also over invocations that abort or are terminated.
C24_NeverDeletes ==
    [][IsPrefix(table, table') /\ ObsIds(table) \subseteq ObsIds(table')]_vars

\* an invocation aborted, or was terminated, after it had committed rows on
\* top of the rows of an earlier invocation
C24_Witness ==
    /\ pc \in {"aborted", "killed"}
    /\ startTable # <<>>
    /\ Len(table) > Len(startTable)

\* ------------------------------------------------------------------ API
\* the GET routes of the application in the order of their registration: the
\* path template, segment by segment, and the handler
Routes ==
    << [path |-> <<>>, handler |-> "root"],
       [path |-> <<"observations">>, handler |-> "get_observations"],
       [path |-> <<"observations", "search">>, handler |-> "search_observations"],
       [path |-> <<"observations", "search", "coordinates">>,
        handler |-> "search_by_coordinates"],
       [path |-> <<"observations", "search", "date">>, handler |-> "search_by_date"],
       [path |-> <<"observations", "{obs_id}">>, handler |-> "get_observation"],
       [path |-> <<"observations", "latest">>, handler |-> "get_latest_observations"],
       [path |-> <<"observations", "random">>, handler |-> "get_random_observation"],
       [path |-> <<"instruments">>, handler |-> "get_instruments"],
       [path |-> <<"filters">>, handler |-> "get_filters"],
       [path |-> <<"targets">>, handler |-> "get_targets"],
       [path |-> <<"proposals">>, handler |-> "get_proposals"],
       [path |-> <<"proposals", "{proposal_id}">>,
        handler |-> "get_proposal_observations"],
       [path |-> <<"statistics">>, handler |-> "get_statistics"],
       [path |-> <<"health">>, handler |-> "health_check"] >>

\* a path parameter matches any one segment
IsParam(seg) == seg \in {"{obs_id}", "{proposal_id}"}

\* the path matches the template of a route
Matches(template, path) ==
    /\ Len(template) = Len(path)
    /\ \A i \in 1..Len(path) : IsParam(template[i]) \/ template[i] = path[i]

\* the first route, in registration order, whose template matches
RECURSIVE FirstMatch(_, _)
FirstMatch(routes, path) ==
    IF routes = <<>> THEN "not_found"
    ELSE IF Matches(Head(routes).path, path) THEN Head(routes).handler
    ELSE FirstMatch(Tail(routes), path)

Dispatch(path) == FirstMatch(Routes, path)

\* the obs_id a path segment names: the stored identifiers are numbers
ObsIdOf(seg) ==
    CASE seg = "1" -> 1
      [] seg = "6" -> 6
      [] OTHER -> 0

\* the status the handler answers with, as far as it depends on the table
StatusOf(handler, path, tbl) ==
    CASE handler = "not_found" -> 404
      [] handler = "get_observation" ->
            IF ObsIdOf(path[2]) \in ObsIds(tbl) THEN 200 ELSE 404
      [] handler = "get_random_observation" -> IF tbl = <<>> THEN 404 ELSE 200
      [] OTHER -> 200

\* the endpoints the root document advertises, with two identifiers for
\* observation_by_id, and three more paths
Paths ==
    {<<>>, <<"observations">>, <<"observations", "1">>, <<"observations", "99">>,
     <<"observations", "search">>, <<"observations", "search", "coordinates">>,
     <<"observations", "search", "date">>, <<"observations", "latest">>,
     <<"observations", "random">>, <<"instruments">>, <<"filters">>, <<"targets">>,
     <<"proposals">>, <<"statistics">>, <<"health">>, <<"proposals", "7">>,
     <<"nothing">>}

\* a GET request is answered
Request ==
    /\ \E path \in Paths :
          response' = [path |-> path, handler |-> Dispatch(path),
                       status |-> StatusOf(Dispatch(path), path, table)]
    /\ UNCHANGED <<today, clock, remote, file, table, pc, progress, next_month,
                   obs_table, existing_obs_ids, processed, added, skipped, pending,
                   error, lastCall, everCompleted, startTable, report, other>>

\* the archive of the end-to-end scenario, no progress file
InitApi ==
    /\ Fresh
    /\ today = [year |-> StartYear, month |-> 1]
    /\ file = [kind |-> "missing"]
    /\ remote = [m \in MonthKeys |-> CatMixed]

\* the API serves while the pipeline runs
NextApi == Next \/ Request

SpecApi == InitApi /\ [][NextApi]_vars

\* C25 (as claimed): a GET of /observations/latest is handled by
\* get_latest_observations and a GET of /observations/random by
\* get_random_observation, and not by get_observation.
C25_AdvertisedReachable ==
    /\ response.path = <<"observations", "latest">> =>
          response.handler = "get_latest_observations"
    /\ response.path = <<"observations", "random">> =>
          response.handler = "get_random_observation"
    /\ response.path \in {<<"observations", "latest">>, <<"observations", "random">>} =>
          response.handler # "get_observation"

\* ------------------------------------------------------- progress viewer
\* show_progress.py: its load_progress gives None for a file that is
\* missing or cannot be parsed
show_load_progress(f) == IF f.kind = "json" THEN f.doc ELSE [none |-> TRUE]

\* show_progress.py: its own get_all_months
show_get_all_months(current) == MonthsFrom(StartYear, current)

\* [m for m in reversed(all_months) if m not in completed]
RECURSIVE Remaining(_, _)
Remaining(months, completed) ==
    IF months = <<>> THEN <<>>
    ELSE IF Head(months) \notin completed
         THEN <<Head(months)>> \o Remaining(Tail(months), completed)
    ELSE Remaining(Tail(months), completed)

\* mutant: the remaining months are listed from the oldest on
show_progress_Forward(f, current) ==
    LET doc == show_load_progress(f)
        remaining == Remaining(show_get_all_months(current), Range(CompletedOf(doc)))
    IN  IF "none" \in DOMAIN doc \/ DOMAIN doc = {} THEN [kind |-> "no_file", at |-> current]
        ELSE IF remaining # <<>>
             THEN [kind |-> "next", month |-> remaining[1], at |-> current]
        ELSE [kind |-> "all_done", at |-> current]

\* what show_progress prints at its end: no progress file, the next month to
\* process, or all months completed; at is the date it ran on
show_progress(f, current) ==
    LET doc == show_load_progress(f)
        remaining == Remaining(Reverse(show_get_all_months(current)),
                               Range(CompletedOf(doc)))
    IN  IF "none" \in DOMAIN doc \/ DOMAIN doc = {} THEN [kind |-> "no_file", at |-> current]
        ELSE IF remaining # <<>>
             THEN [kind |-> "next", month |-> remaining[1], at |-> current]
        ELSE [kind |-> "all_done", at |-> current]

\* the n-th calendar month from 2022-01 on
DateOf(n) == [year |-> StartYear + ((n - 1) \div 12), month |-> ((n - 1) % 12) + 1]

\* the completed lists a progress document may hold: the months up to some
\* date, latest first as the fetcher appends them or oldest first; the latest
\* months back to some date; a list with a gap, and one with a month twice
CompletedLists ==
    {Reverse(get_all_months(DateOf(n))) : n \in 1..MaxDates}
        \cup {get_all_months(DateOf(n)) : n \in 1..MaxDates}
        \cup {Reverse(SubSeq(months, n, Len(months))) :
                 n \in 1..MaxDates, months \in {get_all_months(DateOf(MaxDates))}}
        \cup {<<>>, <<MonthKey(StartYear, 3), MonthKey(StartYear, 1)>>,
              <<MonthKey(StartYear, 1), MonthKey(StartYear, 1)>>}

ViewFiles ==
    {[kind |-> "missing"], [kind |-> "corrupt"]}
        \cup {[kind |-> "json",
               doc |-> [completed_months |-> c, total_observations |-> 0, last_run |-> 0]] :
                 c \in CompletedLists}

\* any progress file, any date; the archive is not asked in this specification
InitView ==
    /\ Fresh
    /\ today \in {DateOf(n) : n \in 1..MaxDates}
    /\ file \in ViewFiles
    /\ remote = [m \in MonthKeys |-> <<>>]

\* the calendar moves on to the next month
NextCalendarMonth ==
    /\ ~Running
    /\ (today.year - StartYear) * 12 + today.month < MaxDates
    /\ today' = IF today.month = 12 THEN [year |-> today.year + 1, month |-> 1]
                ELSE [today EXCEPT !.month = @ + 1]
    /\ UNCHANGED <<clock, remote, file, table, pc, progress, next_month, obs_table,
                   existing_obs_ids, processed, added, skipped, pending, error,
                   lastCall, everCompleted, startTable, response, report, other>>

\* python src/jobs/show_progress.py
ShowProgress ==
    /\ report' = show_progress(file, today)
    /\ UNCHANGED <<today, clock, remote, file, table, pc, progress, next_month,
                   obs_table, existing_obs_ids, processed, added, skipped, pending,
                   error, lastCall, everCompleted, startTable, response, other>>

\* the viewer, the calendar, and main up to its choice of the month
NextView == NextCalendarMonth \/ ShowProgress \/ Start

SpecView == InitView /\ [][NextView]_vars

\* C26: get_all_months returns the months from 2022-01 up to and including
\* the current calendar month, one key per month, strictly increasing,
\* without gap or duplicate, and none after the current month; the month
\* main chooses is one of them.
C26_AllMonths ==
    \A months \in {get_all_months(today)} :
        \A n \in {(today.year - StartYear) * 12 + today.month} :
            /\ Len(months) = n
            /\ months[1] = MonthKey(StartYear, 1)
            /\ months[n] = MonthKey(today.year, today.month)
            /\ \A i \in 1..n : months[i] = MonthKey(DateOf(i).year, DateOf(i).month)
            /\ \A i \in 1..(n - 1) : MonthNo(months[i + 1]) = MonthNo(months[i]) + 1
            /\ \A i \in 1..n :
                  /\ MonthNo(months[i]) <= today.year * 12 + today.month
                  /\ months[i][3] * 10 + months[i][4] \in 1..12
            /\ pc = "query" => next_month \in Range(months)

\* main has chosen a month in February of the second year: the list runs
\* over the turn of the year
C26_Witness ==
    /\ pc = "query"
    /\ today.year = StartYear + 1
    /\ today.month = 2
    /\ Len(get_all_months(today)) = 14
    /\ get_all_months(today)[13] = <<StartYear + 1, "-", 0, 1>>

\* C30: for a progress document with a completed_months list, what
\* show_progress reports on a date is what get_next_month_to_process returns
\* on that date: the same NEXT MONTH TO PROCESS, and ALL MONTHS COMPLETED
\* exactly when it returns None.
C30_ViewerAgrees ==
    (report.kind # "none" /\ report.at = today /\ file.kind = "json"
        /\ "completed_months" \in DOMAIN file.doc) =>
        \A next \in {get_next_month_to_process(load_progress(file), today)} :
            /\ report.kind \in {"next", "all_done"}
            /\ report.kind = "all_done" <=> next = None
            /\ report.kind = "next" => report.month = next

\* the viewer and main ran on the same date and file, with months completed
\* and the latest month among them
C30_Witness ==
    /\ report.kind = "next"
    /\ report.at = today
    /\ pc = "query"
    /\ next_month = report.month
    /\ Len(CompletedOf(load_progress(file))) >= 2
    /\ report.month # Last(get_all_months(today))

\* every month up to the date is completed and the viewer says so
C30_WitnessAllDone ==
    /\ report.kind = "all_done"
    /\ report.at = today
    /\ pc = "done"
    /\ next_month = None

\* ------------------------------------------------ overlapping invocations
\* a second invocation of main starts while, or before, or after the first
\* runs: load_progress and get_next_month_to_process
OtherStart ==
    /\ other.pc = "idle"
    /\ \E loaded \in {load_progress(file)} :
        \E month \in {get_next_month_to_process(loaded, today)} :
            other' = [pc |-> IF month = None THEN "done" ELSE "query",
                      progress |-> loaded, month |-> month]
    /\ UNCHANGED <<today, clock, remote, file, table, pc, progress, next_month,
                   obs_table, existing_obs_ids, processed, added, skipped, pending,
                   error, lastCall, everCompleted, startTable, response, report>>

\* its fetch_month, in one step, with an archive and a database that do not
\* fail: what it commits is in the table whether it returns or raises
OtherFetch ==
    /\ other.pc = "query"
    /\ \E run \in {fetch_month(table, remote[other.month], clock)} :
          /\ table' = run.table
          /\ other' = [other EXCEPT !.pc = IF run.status = "raise" THEN "aborted"
                                           ELSE "fetched"]
    /\ UNCHANGED <<today, clock, remote, file, pc, progress, next_month,
                   obs_table, existing_obs_ids, processed, added, skipped, pending,
                   error, lastCall, everCompleted, startTable, response, report>>

\* its update of the document it loaded, and its save_progress
OtherSave ==
    /\ other.pc = "fetched"
    /\ IF "completed_months" \in DOMAIN other.progress
       THEN /\ file' = [kind |-> "json",
                        doc |-> UpdatedProgress(other.progress, other.month,
                                                Len(table), clock)]
            /\ other' = [other EXCEPT !.pc = "done"]
            /\ everCompleted' = everCompleted \cup Range(file'.doc.completed_months)
       ELSE /\ other' = [other EXCEPT !.pc = "aborted"]
            /\ UNCHANGED <<file, everCompleted>>
    /\ UNCHANGED <<today, clock, remote, table, pc, progress, next_month,
                   obs_table, existing_obs_ids, processed, added, skipped, pending,
                   error, lastCall, startTable, response, report>>

NextOverlap == Next \/ OtherStart \/ OtherFetch \/ OtherSave

\* a first invocation, no progress file; a month of the archive lists
\* nothing, one observation, or one observation and a row that raises
InitOverlap ==
    /\ Fresh
    /\ today = [year |-> StartYear, month |-> 1]
    /\ file = [kind |-> "missing"]
    /\ remote \in [MonthKeys -> {<<>>, <<Good(1, 10)>>, CatBad}]

SpecOverlap == InitOverlap /\ [][NextOverlap]_vars

\* C28 (as claimed): no save_progress removes a month that is persisted as
\* completed, also when invocations overlap: every document written holds
\* every month ever persisted.
C28_NoLostMonth ==
    [][ (file' # file /\ file'.kind = "json") =>
            everCompleted \subseteq Range(file'.doc.completed_months) ]_vars

\* C28 (amended): a save_progress writes the completed_months its invocation
\* loaded at its start plus the invocation's own month, and nothing else; so
\* a save removes no persisted month when every persisted month was in the
\* document the saving invocation loaded (no other invocation has saved since),
\* or is its own month.
C28_NoLostMonthWhenAlone ==
    [][ /\ (pc = "fetched" /\ pc' = "save_open") =>
              Range(progress'.completed_months) =
                  Range(CompletedOf(progress)) \cup {next_month}
        /\ (pc = "save_write" /\ pc' = "done") => file'.doc = progress
        /\ (other.pc = "fetched" /\ other'.pc = "done") =>
              /\ Range(file'.doc.completed_months) =
                    Range(CompletedOf(other.progress)) \cup {other.month}
              /\ everCompleted \subseteq Range(CompletedOf(other.progress)) \cup {other.month}
                    => everCompleted \subseteq Range(file'.doc.completed_months)
        /\ (pc = "fetched" /\ pc' = "save_open"
               /\ everCompleted \subseteq Range(CompletedOf(progress)) \cup {next_month}) =>
              everCompleted \subseteq Range(progress'.completed_months)
      ]_vars

\* the second invocation loaded the file after the first had saved its month,
\* and has saved its own: both months are persisted
C28_Witness ==
    /\ pc = "done"
    /\ other.pc = "done"
    /\ next_month # None
    /\ other.month # None
    /\ other.month # next_month
    /\ next_month \in Range(CompletedOf(other.progress))
    /\ {next_month, other.month} \subseteq Persisted

\* a row fetch_month can store: it has an identifier, its product-listing
\* call succeeded and a preview or a data URL resolves from the listing
Storable(obs) ==
    /\ Or(obs.obsid, obs.obs_id) # 0
    /\ ListCall(obs).ok
    /\ \E urls \in {ResolveUrls(obs.products)} :
          urls.preview # None \/ urls.fits # None

\* C29: when a month is marked completed, every observation of its catalog
\* result that has an identifier, whose product-listing call succeeded and
\* for which a preview or data URL resolves, has a record in the stored table.
C29_CompletedMonthStored ==
    \A stored \in {ObsIds(table)} :
        \A m \in Persisted :
            \A i \in 1..Len(remote[m]) :
                \/ Or(remote[m][i].obsid, remote[m][i].obs_id) \in stored
                \/ ~Storable(remote[m][i])

\* two months are completed; the one of this run lists rows that were skipped
\* and storable rows, one of them stored by this run and one stored before
C29_Witness ==
    /\ pc = "done"
    /\ Cardinality(Persisted) = 2
    /\ next_month \in Persisted
    /\ \E i, j, k \in 1..Len(obs_table) :
          /\ ~Storable(obs_table[i])
          /\ Storable(obs_table[j])
          /\ obs_table[j].obsid \in ObsIds(table) \ ObsIds(startTable)
          /\ Storable(obs_table[k])
          /\ obs_table[k].obsid \in ObsIds(startTable)

====
